---- MODULE Spec2Model ----
(***************************************************************************)
(* Model of the supporting-content parser of the expert-matching frontend  *)
(* (app/frontend/src/components/SupportingContent/SupportingContentParser  *)
(* .ts).  A text is a sequence of one-character strings, so that splitting,*)
(* regular-expression matching and replacement are computed character by   *)
(* character as the JavaScript engine computes them.                       *)
(***************************************************************************)
EXTENDS Integers, Sequences, FiniteSets, TLC

VARIABLES item, pc, parts, title, rawContent, availabilityMatch, content,
          sanitizedContent, availability, result

vars == <<item, pc, parts, title, rawContent, availabilityMatch, content,
          sanitizedContent, availability, result>>

(***************************************************************************)
(* Characters and JavaScript string primitives                             *)
(***************************************************************************)

\* Letters of the texts of this model and their upper-case forms, position by position.
LowerLetters ==
  <<"a", "b", "c", "d", "e", "f", "g", "h", "i", "j", "k", "l", "m", "n", "o", "p", "q", "r", "s", "t", "u", "v", "w", "x", "y", "z", "é", "è", "ô">>

UpperLetters ==
  <<"A", "B", "C", "D", "E", "F", "G", "H", "I", "J", "K", "L", "M", "N", "O", "P", "Q", "R", "S", "T", "U", "V", "W", "X", "Y", "Z", "É", "È", "Ô">>

\* The upper-case form of every lower-case letter.
UpperOf == [ch \in {LowerLetters[k] : k \in 1..Len(LowerLetters)} |->
              UpperLetters[CHOOSE k \in 1..Len(LowerLetters) : LowerLetters[k] = ch]]

\* Canonicalize of the "i" flag (no "u" flag): a character is compared by its upper-case form.
Canonicalize(ch) == IF ch \in DOMAIN UpperOf THEN UpperOf[ch] ELSE ch

\* The characters matched by \s.
WhiteSpace == {" ", "\t", "\n", "\r"}

\* The characters matched by [0-9].
Digits == <<"0", "1", "2", "3", "4", "5", "6", "7", "8", "9">>

DigitChars == {Digits[k] : k \in 1..Len(Digits)}

\* pat occurs in text at index i (1-based), compared exactly.
StartsWithAt(text, pat, i) ==
  /\ i >= 1
  /\ i + Len(pat) - 1 <= Len(text)
  /\ \A k \in 1..Len(pat) : text[i + k - 1] = pat[k]

\* pat occurs in text at index i, compared as the "i" flag compares.
CaselessAt(text, pat, i) ==
  /\ i >= 1
  /\ i + Len(pat) - 1 <= Len(text)
  /\ \A k \in 1..Len(pat) : Canonicalize(text[i + k - 1]) = Canonicalize(pat[k])

\* String.prototype.indexOf, 1-based; 0 when pat does not occur.
IndexOf(text, pat) ==
  IF \E i \in 1..(Len(text) + 1) : StartsWithAt(text, pat, i)
  THEN CHOOSE i \in 1..(Len(text) + 1) :
         /\ StartsWithAt(text, pat, i)
         /\ \A j \in 1..(i - 1) : ~StartsWithAt(text, pat, j)
  ELSE 0

\* The text from index i to the end.
From(text, i) == SubSeq(text, i, Len(text))

\* The first index >= i whose character is not in set (Len(text) + 1 if none): a greedy X*.
RECURSIVE SkipWhile(_, _, _)
SkipWhile(text, i, set) ==
  IF i <= Len(text) /\ text[i] \in set THEN SkipWhile(text, i + 1, set) ELSE i

\* String.prototype.split with a non-empty separator string.
RECURSIVE Split(_, _)
Split(text, sep) ==
  LET i == IndexOf(text, sep)
  IN  IF i = 0 THEN <<text>>
      ELSE <<SubSeq(text, 1, i - 1)>> \o Split(From(text, i + Len(sep)), sep)

\* Array.prototype.join.
RECURSIVE Join(_, _)
Join(ps, sep) ==
  IF Len(ps) = 0 THEN <<>>
  ELSE IF Len(ps) = 1 THEN ps[1]
  ELSE ps[1] \o sep \o Join(Tail(ps), sep)

\* A variant of the slice that keeps the first part: slice(0).
Slice0(ps) == ps

\* Array.prototype.slice(1).
Slice1(ps) == IF Len(ps) = 0 THEN <<>> ELSE Tail(ps)

\* String.prototype.replace(string, string): the first occurrence only.
ReplaceFirst(text, pat, by) ==
  LET i == IndexOf(text, pat)
  IN  IF i = 0 THEN text
      ELSE SubSeq(text, 1, i - 1) \o by \o From(text, i + Len(pat))

\* The separator between the file name and the content.
Separator == <<":", " ">>

\* undefined / null, and a present value.
Undefined == <<>>

Some(v) == <<v>>

(***************************************************************************)
(* The metadata labels                                                     *)
(***************************************************************************)

LABELS_TO_BOLD ==
  << <<"B", "o", "o", "k", "i", "n", "g", " ", "U", "R", "L">>,
     <<"B", "o", "o", "k", "i", "n", "g", " ", "U", "r", "l">>,
     <<"U", "R", "L">>,
     <<"E", "m", "a", "i", "l">>,
     <<"P", "r", "a", "c", "t", "i", "c", "e">>,
     <<"P", "r", "a", "t", "i", "q", "u", "e">>,
     <<"R", "o", "l", "e">>,
     <<"R", "ô", "l", "e">>,
     <<"A", "v", "a", "i", "l", "a", "b", "i", "l", "i", "t", "y">>,
     <<"D", "i", "s", "p", "o", "n", "i", "b", "i", "l", "i", "t", "é">>,
     <<"L", "o", "c", "a", "t", "i", "o", "n">>,
     <<"L", "o", "c", "a", "l", "i", "s", "a", "t", "i", "o", "n">>,
     <<"C", "a", "t", "e", "g", "o", "r", "y">>,
     <<"C", "a", "t", "é", "g", "o", "r", "i", "e">>,
     <<"D", "e", "s", "c", "r", "i", "p", "t", "i", "o", "n">>,
     <<"C", "o", "m", "p", "é", "t", "e", "n", "c", "e", "s", " ", "t", "e", "c", "h", "n", "i", "q", "u", "e", "s">>,
     <<"C", "o", "m", "p", "é", "t", "e", "n", "c", "e", "s", " ", "s", "u", "p", "p", "l", "é", "m", "e", "n", "t", "a", "i", "r", "e", "s">>,
     <<"C", "o", "m", "p", "é", "t", "e", "n", "c", "e", "s", " ", "a", "d", "d", "i", "t", "i", "o", "n", "n", "e", "l", "l", "e", "s">>,
     <<"C", "o", "m", "p", "é", "t", "e", "n", "c", "e", "s">>,
     <<"C", "o", "m", "p", "e", "t", "e", "n", "c", "e", "s">>,
     <<"S", "k", "i", "l", "l", "s">>,
     <<"T", "e", "c", "h", "n", "o", "l", "o", "g", "i", "e", "s">>,
     <<"T", "e", "c", "h", "n", "i", "q", "u", "e", "s">>,
     <<"M", "é", "t", "h", "o", "d", "e", "s">>,
     <<"M", "e", "t", "h", "o", "d", "e", "s">>,
     <<"M", "é", "t", "h", "o", "d", "o", "l", "o", "g", "i", "e", "s">>,
     <<"M", "e", "t", "h", "o", "d", "o", "l", "o", "g", "i", "e", "s">>,
     <<"O", "u", "t", "i", "l", "s", " ", "c", "o", "l", "l", "a", "b", "o", "r", "a", "t", "i", "f", "s">>,
     <<"O", "u", "t", "i", "l", "s", " ", "e", "t", " ", "p", "l", "a", "t", "e", "f", "o", "r", "m", "e", "s">>,
     <<"O", "u", "t", "i", "l", "s", " ", "e", "t", " ", "b", "i", "b", "l", "i", "o", "t", "h", "è", "q", "u", "e", "s">>,
     <<"O", "u", "t", "i", "l", "s">>,
     <<"S", "e", "c", "t", "e", "u", "r", " ", "d", "'", "a", "c", "t", "i", "v", "i", "t", "é">>,
     <<"S", "e", "c", "t", "e", "u", "r", "s">>,
     <<"S", "e", "c", "t", "e", "u", "r">>,
     <<"D", "o", "m", "a", "i", "n", "e", "s", " ", "d", "e", " ", "p", "r", "a", "t", "i", "q", "u", "e">>,
     <<"D", "o", "m", "a", "i", "n", "e", "s">>,
     <<"I", "n", "d", "u", "s", "t", "r", "y">> >>

\* The place of ls[k] after sort((a, b) => b.length - a.length): behind every longer label and,
\* the sort being stable, behind every label of the same length that comes before it.
PlaceByLength(ls, k) ==
  1 + Cardinality({j \in 1..Len(ls) : Len(ls[j]) > Len(ls[k])})
    + Cardinality({j \in 1..(k - 1) : Len(ls[j]) = Len(ls[k])})

SortByLength(ls) ==
  [p \in 1..Len(ls) |-> ls[CHOOSE k \in 1..Len(ls) : PlaceByLength(ls, k) = p]]

labelsByLength == SortByLength(LABELS_TO_BOLD)

\* The characters of the class [.*+?^${}()|[\]\\].
RegExpSpecials == {".", "*", "+", "?", "^", "$", "{", "}", "(", ")", "|", "[", "]", "\\"}

\* label.replace(/[.*+?^${}()|[\]\\]/g, "\\$&"): a backslash before every special character.
RECURSIVE escaped(_)
escaped(label) ==
  IF Len(label) = 0 THEN <<>>
  ELSE (IF Head(label) \in RegExpSpecials THEN <<"\\", Head(label)>> ELSE <<Head(label)>>)
       \o escaped(Tail(label))

\* The characters the group (${escaped}) of the compiled pattern matches, one after the other:
\* a backslash makes the next character literal, any other character of a label is literal.
RECURSIVE GroupLiterals(_)
GroupLiterals(src) ==
  IF Len(src) = 0 THEN <<>>
  ELSE IF Head(src) = "\\" /\ Len(src) >= 2 THEN <<src[2]>> \o GroupLiterals(Tail(Tail(src)))
  ELSE <<Head(src)>> \o GroupLiterals(Tail(src))

\* A variant of the class that also admits a letter and a colon before a label.
PrefixCharsAndLetters == {"\n", "\r"} \cup WhiteSpace \cup {";", ",", ".", "x", ":"}

\* A variant of the class that also admits an asterisk before a label.
PrefixCharsAndStar == {"\n", "\r"} \cup WhiteSpace \cup {";", ",", ".", "*"}

\* The characters of the class [\n\r\s;,.] of the pattern.
PrefixChars == {"\n", "\r"} \cup WhiteSpace \cup {";", ",", "."}

\* (label)\s*: tried at index s: the index after the colon, or 0 when it does not match.
LabelColonAt(text, lit, s) ==
  IF CaselessAt(text, lit, s)
  THEN LET c == SkipWhile(text, s + Len(lit), WhiteSpace)
       IN  IF c <= Len(text) /\ text[c] = ":" THEN c + 1 ELSE 0
  ELSE 0

\* (^|[\n\r\s;,.])(label)\s*: tried at index i: <<start of the label, index after the colon>>,
\* or <<>> when neither alternative matches.
PatternAt(text, lit, i) ==
  LET atStart == IF i = 1 THEN LabelColonAt(text, lit, 1) ELSE 0
      afterPrefix == IF text[i] \in PrefixChars THEN LabelColonAt(text, lit, i + 1) ELSE 0
  IN  IF atStart # 0 THEN <<1, atStart>>
      ELSE IF afterPrefix # 0 THEN <<i + 1, afterPrefix>>
      ELSE <<>>

\* The index >= i of the leftmost match of the pattern, or 0 when there is none.
NextPattern(text, lit, i) ==
  IF \E j \in i..Len(text) : PatternAt(text, lit, j) # <<>>
  THEN CHOOSE j \in i..Len(text) :
         /\ PatternAt(text, lit, j) # <<>>
         /\ \A h \in i..(j - 1) : PatternAt(text, lit, h) = <<>>
  ELSE 0

\* text.replace(pattern, (_match, prefix, matched) => `${prefix}**${matched}:**`) with the "g" flag,
\* from index i on: every match, left to right, the search resuming after the match; the text
\* between the matches is copied.
RECURSIVE ReplacePattern(_, _, _)
ReplacePattern(text, lit, i) ==
  LET j == NextPattern(text, lit, i)
      m == PatternAt(text, lit, j)
  IN  IF j = 0 THEN From(text, i)
      ELSE SubSeq(text, i, m[1] - 1) \o <<"*", "*">>
           \o SubSeq(text, m[1], m[1] + Len(lit) - 1) \o <<":", "*", "*">>
           \o ReplacePattern(text, lit, m[2])

\* The compiled pattern of each label of labelsByLength: the characters its group matches.
LabelPatterns == [k \in 1..Len(labelsByLength) |-> GroupLiterals(escaped(labelsByLength[k]))]

\* labelsByLength.reduce(..., input), from the k-th label on: the callback has returned before
\* the next label is taken up, and a pass without a match returns the text it was given.
RECURSIVE ReduceLabels(_, _)
ReduceLabels(text, k) ==
  IF k > Len(labelsByLength) THEN text
  ELSE LET replaced == ReplacePattern(text, LabelPatterns[k], 1)
       IN  IF replaced = text THEN ReduceLabels(text, k + 1) ELSE ReduceLabels(replaced, k + 1)

boldMetadataLabels(input) == ReduceLabels(input, 1)

(***************************************************************************)
(* Availability                                                            *)
(***************************************************************************)

\* The literal start of /Availability:\\s*([0-9.]+)/i.
AvailabilityLabel == <<"A", "v", "a", "i", "l", "a", "b", "i", "l", "i", "t", "y", ":">>

\* The characters of the class [0-9.].
NumberChars == DigitChars \cup {"."}

\* /Availability:\\s*([0-9.]+)/i tried at index i: "Availability:" in any case, a backslash (\\),
\* any number of letters s (s*), then the captured run of digits and dots.
\* <<match[0], match[1]>>, or <<>> when it does not match at i.
AvailabilityAt(text, i) ==
  LET b == i + Len(AvailabilityLabel)
      n == SkipWhile(text, b + 1, {"s", "S"})
      e == SkipWhile(text, n, NumberChars)
  IN  IF CaselessAt(text, AvailabilityLabel, i) /\ b <= Len(text) /\ text[b] = "\\" /\ e > n
      THEN <<SubSeq(text, i, e - 1), SubSeq(text, n, e - 1)>>
      ELSE <<>>

\* rawContent.match(/Availability:\\s*([0-9.]+)/i): the leftmost match, or null (<<>>).
MatchAvailability(text) ==
  IF \E i \in 1..Len(text) : AvailabilityAt(text, i) # <<>>
  THEN AvailabilityAt(text, CHOOSE i \in 1..Len(text) :
         /\ AvailabilityAt(text, i) # <<>>
         /\ \A j \in 1..(i - 1) : AvailabilityAt(text, j) = <<>>)
  ELSE <<>>

\* /;\\s*\\.?$/ tried at index i: a semicolon, a backslash (\\), any number of letters s (s*),
\* a backslash (\\), at most one character that is not a line terminator (.?), the end of the text.
TrailingAt(text, i) ==
  LET n == SkipWhile(text, i + 2, {"s"})
  IN  /\ i + 1 <= Len(text)
      /\ text[i] = ";"
      /\ text[i + 1] = "\\"
      /\ n <= Len(text)
      /\ text[n] = "\\"
      /\ \/ n = Len(text)
         \/ n + 1 = Len(text) /\ text[n + 1] \notin {"\n", "\r"}

\* .replace(/;\\s*\\.?$/, ""): the leftmost match is removed.
StripTrailing(text) ==
  IF \E i \in 1..Len(text) : TrailingAt(text, i)
  THEN SubSeq(text, 1, (CHOOSE i \in 1..Len(text) :
         /\ TrailingAt(text, i)
         /\ \A j \in 1..(i - 1) : ~TrailingAt(text, j)) - 1)
  ELSE text

\* The value of a decimal digit.
DigitValue(d) == (CHOOSE k \in 1..Len(Digits) : Digits[k] = d) - 1

\* The value of a run of decimal digits.
RECURSIVE DigitsValue(_)
DigitsValue(ds) ==
  IF Len(ds) = 0 THEN 0
  ELSE 10 * DigitsValue(SubSeq(ds, 1, Len(ds) - 1)) + DigitValue(ds[Len(ds)])

RECURSIVE Pow10(_)
Pow10(n) == IF n = 0 THEN 1 ELSE 10 * Pow10(n - 1)

\* Number(token) for a token of digits and dots: <<>> for NaN, otherwise <<numerator, denominator>>.
\* The numeric literals are digits[.digits] and .digits.
NumberOf(tok) ==
  LET d == IndexOf(tok, <<".">>)
      int == IF d = 0 THEN tok ELSE SubSeq(tok, 1, d - 1)
      frac == IF d = 0 THEN <<>> ELSE From(tok, d + 1)
  IN  IF IndexOf(frac, <<".">>) # 0 \/ Len(int) + Len(frac) = 0 THEN <<>>
      ELSE <<DigitsValue(int \o frac), Pow10(Len(frac))>>

\* Number.isFinite.
IsFinite(num) == num # <<>>

\* Math.round(parsed * 100): the nearest integer, a half rounding up.
RoundTimes100(num) == (200 * num[1] + num[2]) \div (2 * num[2])

\* The decimal digits of a natural number, as a template literal prints it.
RECURSIVE NatToString(_)
NatToString(n) ==
  IF n < 10 THEN <<Digits[n + 1]>> ELSE NatToString(n \div 10) \o <<Digits[(n % 10) + 1]>>

\* A variant of lines 24-29 that formats the token whether or not it is finite.
FormatNaNPercent(tok) ==
  LET parsed == NumberOf(tok)
  IN  IF IsFinite(parsed) THEN NatToString(RoundTimes100(parsed)) \o <<"%">>
      ELSE <<"N", "a", "N", "%">>

\* Lines 24-29: the availability shown for the captured token.
FormatAvailability(tok) ==
  LET parsed == NumberOf(tok)
  IN  IF IsFinite(parsed) THEN NatToString(RoundTimes100(parsed)) \o <<"%">> ELSE tok

(***************************************************************************)
(* Sanitization                                                            *)
(***************************************************************************)

ScriptOpen == <<"<", "s", "c", "r", "i", "p", "t", ">">>

ScriptClose == <<"<", "/", "s", "c", "r", "i", "p", "t", ">">>

\* The first index of text where a script tag, opening or closing, starts; 0 when there is none.
FirstScriptTag(text) ==
  LET o == IndexOf(text, ScriptOpen)
      c == IndexOf(text, ScriptClose)
  IN  IF o = 0 THEN c ELSE IF c = 0 THEN o ELSE IF o < c THEN o ELSE c

\* DOMPurify.sanitize on the markup of this model: a script element is removed with its
\* content (up to the end of the text when it is not closed), a stray closing tag is removed,
\* every other character is kept.
RECURSIVE DOMPurifySanitize(_)
DOMPurifySanitize(text) ==
  LET t == FirstScriptTag(text)
      rest == From(text, t + Len(ScriptOpen))
      c == IndexOf(rest, ScriptClose)
  IN  IF t = 0 THEN text
      ELSE IF StartsWithAt(text, ScriptOpen, t)
      THEN SubSeq(text, 1, t - 1)
           \o (IF c = 0 THEN <<>> ELSE DOMPurifySanitize(From(rest, c + Len(ScriptClose))))
      ELSE SubSeq(text, 1, t - 1) \o DOMPurifySanitize(From(text, t + Len(ScriptClose)))

(***************************************************************************)
(* Inputs                                                                  *)
(***************************************************************************)

\* The number of fragments of a body.
MaxFrags == 3

\* An input starts with a file name and the separator, or with nothing.
Heads ==
  { <<>>, <<"f", ".", "p", "d", "f", ":", " ">> }

\* Availability clauses as the retrieval backend writes them.
ClauseFragments ==
  << <<"a", "v", "a", "i", "l", "a", "b", "i", "l", "i", "t", "y", ":">>,
     <<"A", "V", "A", "I", "L", "A", "B", "I", "L", "I", "T", "Y", ":">>,
     <<" ", "0", ".", "5">>,
     <<"1">>,
     <<"R", "o", "l", "e", ":", " ", "X", ";", " ">>,
     <<"A", "v", "a", "i", "l", "a", "b", "i", "l", "i", "t", "y", ":", " ", "0", ".", "7", "5">>,
     <<";", " ", "L", "o", "c", "a", "t", "i", "o", "n", ":", " ", "P">> >>

\* Texts with backslashes.
BackslashFragments ==
  << <<"A", "v", "a", "i", "l", "a", "b", "i", "l", "i", "t", "y", ":", "\\">>,
     <<"a", "v", "a", "i", "l", "a", "b", "i", "l", "i", "t", "y", ":", "\\", "s">>,
     <<"A", "v", "a", "i", "l", "a", "b", "i", "l", "i", "t", "y", ":", "\\", "5">>,
     <<"0", ".", "5">>,
     <<".">>,
     <<";", "\\">>,
     <<"\\">> >>

\* Labels, prose and the characters around them.
BoundaryFragments ==
  << <<"R", "o", "l", "e">>,
     <<"r", "o", "l", "e">>,
     <<"S", "k", "i", "l", "l", "s", "e", "t", "s">>,
     <<":">>,
     <<" ">>,
     <<"n", "o", "t", "e", "s", ".">>,
     <<"x">> >>

\* Labels that contain other labels.
NestedFragments ==
  << <<"B", "o", "o", "k", "i", "n", "g", " ", "U", "R", "L">>,
     <<"U", "R", "L">>,
     <<"C", "o", "m", "p", "é", "t", "e", "n", "c", "e", "s", " ", "t", "e", "c", "h", "n", "i", "q", "u", "e", "s">>,
     <<"O", "u", "t", "i", "l", "s", " ", "e", "t", " ", "p", "l", "a", "t", "e", "f", "o", "r", "m", "e", "s">>,
     <<":">>,
     <<" ">> >>

\* Markup and emphasis markers.
MarkupFragments ==
  << <<"<", "s", "c", "r", "i", "p", "t", ">", "a", "l", "e", "r", "t", "(", "1", ")", "<", "/", "s", "c", "r", "i", "p", "t", ">">>,
     <<"<", "s", "c", "r", "i", "p", "t", ">">>,
     <<"<", "/", "s", "c", "r", "i", "p", "t", ">">>,
     <<" ", "R", "o", "l", "e", ":", " ", "X">>,
     <<"*", "*">>,
     <<"R", "o", "l", "e", ":">> >>

Families == <<ClauseFragments, BackslashFragments, BoundaryFragments, NestedFragments, MarkupFragments>>

RECURSIVE Concat(_)
Concat(fs) == IF Len(fs) = 0 THEN <<>> ELSE Head(fs) \o Concat(Tail(fs))

FragmentSeqs(family) ==
  UNION {[1..m -> {family[k] : k \in 1..Len(family)}] : m \in 0..MaxFrags}

Inputs ==
  {head \o Concat(fs) : head \in Heads,
                        fs \in UNION {FragmentSeqs(Families[k]) : k \in 1..Len(Families)}}

(***************************************************************************)
(* parseSupportingContentItem, statement by statement                      *)
(***************************************************************************)

Init ==
  /\ item \in Inputs
  /\ pc = "split"
  /\ parts = <<>>
  /\ title = <<>>
  /\ rawContent = <<>>
  /\ availabilityMatch = <<>>
  /\ content = <<>>
  /\ sanitizedContent = <<>>
  /\ availability = Undefined
  /\ result = <<>>

\* A variant of lines 12-14 that takes the second part alone as the content: parts[1].
SplitItemSecondPart ==
  /\ pc = "split"
  /\ parts' = Split(item, Separator)
  /\ title' = parts'[1]
  /\ rawContent' = IF Len(parts') >= 2 THEN parts'[2] ELSE <<>>
  /\ pc' = "match"
  /\ UNCHANGED <<item, availabilityMatch, content, sanitizedContent, availability, result>>

\* Lines 12-14.
SplitItem ==
  /\ pc = "split"
  /\ parts' = Split(item, Separator)
  /\ title' = parts'[1]
  /\ rawContent' = Join(Slice1(parts'), Separator)
  /\ pc' = "match"
  /\ UNCHANGED <<item, availabilityMatch, content, sanitizedContent, availability, result>>

\* Lines 15-16.
MatchItem ==
  /\ pc = "match"
  /\ availabilityMatch' = MatchAvailability(rawContent)
  /\ content' = rawContent
  /\ pc' = "strip"
  /\ UNCHANGED <<item, parts, title, rawContent, sanitizedContent, availability, result>>

\* Lines 17-19.
StripItem ==
  /\ pc = "strip"
  /\ content' = IF availabilityMatch # <<>>
                THEN StripTrailing(ReplaceFirst(content, availabilityMatch[1], <<>>))
                ELSE content
  /\ pc' = "bold"
  /\ UNCHANGED <<item, parts, title, rawContent, availabilityMatch, sanitizedContent, availability, result>>

\* Line 20.
BoldItem ==
  /\ pc = "bold"
  /\ content' = boldMetadataLabels(content)
  /\ pc' = "sanitize"
  /\ UNCHANGED <<item, parts, title, rawContent, availabilityMatch, sanitizedContent, availability, result>>

\* Line 21.
SanitizeItem ==
  /\ pc = "sanitize"
  /\ sanitizedContent' = DOMPurifySanitize(content)
  /\ pc' = "format"
  /\ UNCHANGED <<item, parts, title, rawContent, availabilityMatch, content, availability, result>>

\* Lines 22-30.
FormatItem ==
  /\ pc = "format"
  /\ availability' = IF availabilityMatch # <<>>
                     THEN Some(FormatAvailability(availabilityMatch[2]))
                     ELSE Undefined
  /\ pc' = "return"
  /\ UNCHANGED <<item, parts, title, rawContent, availabilityMatch, content, sanitizedContent, result>>

\* A variant of lines 32-36 that returns the content before sanitization.
ReturnUnsanitized ==
  /\ pc = "return"
  /\ result' = [title |-> title, content |-> content, availability |-> availability]
  /\ pc' = "done"
  /\ UNCHANGED <<item, parts, title, rawContent, availabilityMatch, content, sanitizedContent, availability>>

\* Lines 32-36.
ReturnItem ==
  /\ pc = "return"
  /\ result' = [title |-> title, content |-> sanitizedContent, availability |-> availability]
  /\ pc' = "done"
  /\ UNCHANGED <<item, parts, title, rawContent, availabilityMatch, content, sanitizedContent, availability>>

Next ==
  \/ SplitItem
  \/ MatchItem
  \/ StripItem
  \/ BoldItem
  \/ SanitizeItem
  \/ FormatItem
  \/ ReturnItem

Spec == Init /\ [][Next]_vars

(***************************************************************************)
(* What the documentation says of an input, stated without the parser      *)
(***************************************************************************)

\* The index of the first separator of the input, 0 when it has none.
FirstSeparator == IndexOf(item, Separator)

\* The text after the first separator: the body.
Body == IF FirstSeparator = 0 THEN <<>> ELSE From(item, FirstSeparator + Len(Separator))

\* The index after an availability clause that starts at index i of text ("Availability:" in
\* any casing, optional whitespace, a run of digits and dots), 0 when none starts there.
ClauseEnd(text, i) ==
  IF CaselessAt(text, AvailabilityLabel, i)
  THEN LET n == SkipWhile(text, i + Len(AvailabilityLabel), WhiteSpace)
           e == SkipWhile(text, n, NumberChars)
       IN  IF e > n THEN e ELSE 0
  ELSE 0

HasClause(text) == \E i \in 1..Len(text) : ClauseEnd(text, i) # 0

\* The start of the first availability clause of a text that has one.
ClauseStart(text) ==
  CHOOSE i \in 1..Len(text) : ClauseEnd(text, i) # 0 /\ \A j \in 1..(i - 1) : ClauseEnd(text, j) = 0

\* The numeric token of the first availability clause.
ClauseToken(text) ==
  LET i == ClauseStart(text)
  IN  SubSeq(text, SkipWhile(text, i + Len(AvailabilityLabel), WhiteSpace), ClauseEnd(text, i) - 1)

\* A token of digits and dots is a finite decimal number: at most one dot and at least one digit.
FiniteToken(tok) ==
  /\ Cardinality({k \in 1..Len(tok) : tok[k] = "."}) <= 1
  /\ \E k \in 1..Len(tok) : tok[k] \in DigitChars

\* The text without its first availability clause and without the remnant at its end: an
\* optional semicolon is kept out of it together with optional whitespace and an optional period.
WithoutClause(text) ==
  LET i == ClauseStart(text)
      cut == SubSeq(text, 1, i - 1) \o From(text, ClauseEnd(text, i))
      Remnant(k) == /\ cut[k] = ";"
                    /\ LET w == SkipWhile(cut, k + 1, WhiteSpace)
                       IN  w > Len(cut) \/ (w = Len(cut) /\ cut[w] = ".")
  IN  IF \E k \in 1..Len(cut) : Remnant(k)
      THEN SubSeq(cut, 1, (CHOOSE k \in 1..Len(cut) : Remnant(k) /\ \A j \in 1..(k - 1) : ~Remnant(j)) - 1)
      ELSE cut

\* The characters that may stand before an emphasized label.
BoundaryChars == {" ", "\t", "\n", "\r", ";", ",", "."}

\* A label stands at index i of text after the start or a boundary character and is followed,
\* after at most maxGap whitespace characters, by a colon.
LabelOccursAt(text, label, i, maxGap) ==
  /\ i = 1 \/ (i > 1 /\ text[i - 1] \in BoundaryChars)
  /\ CaselessAt(text, label, i)
  /\ \E c \in (i + Len(label))..Len(text) :
       /\ text[c] = ":"
       /\ c - (i + Len(label)) <= maxGap
       /\ \A w \in (i + Len(label))..(c - 1) : text[w] \in WhiteSpace

\* The indexes of text where some label occurs in that way.
LabelOccurrences(text, maxGap) ==
  {i \in 1..Len(text) : \E k \in 1..Len(LABELS_TO_BOLD) : LabelOccursAt(text, LABELS_TO_BOLD[k], i, maxGap)}

\* The number of asterisks of a text.
StarCount(text) == Cardinality({i \in 1..Len(text) : text[i] = "*"})

Contains(text, pat) == IndexOf(text, pat) # 0

\* A text with its asterisks taken out.
EraseStars(text) == SelectSeq(text, LAMBDA ch : ch # "*")

(***************************************************************************)
(* Properties                                                              *)
(***************************************************************************)

\* C1: when the body contains "Availability:" in any casing, optional whitespace and a numeric
\* token that is a finite number v, the returned availability is round(v * 100) followed by "%".
AvailabilityIsPercentage ==
  (pc = "done" /\ HasClause(Body) /\ FiniteToken(ClauseToken(Body)))
    => result.availability =
         Some(NatToString(RoundTimes100(NumberOf(ClauseToken(Body)))) \o <<"%">>)

\* C2: when the body contains an availability clause, the returned content no longer shows the
\* clause: it is the emphasized and sanitized body without the clause and without the remnant
\* of its removal at the end of the body.
ClauseIsRemoved ==
  (pc = "done" /\ HasClause(Body))
    => /\ result.content = DOMPurifySanitize(boldMetadataLabels(WithoutClause(Body)))
       /\ Cardinality({i \in 1..Len(Body) : ClauseEnd(Body, i) # 0}) = 1
            => ~HasClause(EraseStars(result.content))

\* C3: an input without the separator ": " comes back as the title, with an empty content and
\* no availability.
NoSeparatorGivesTitleOnly ==
  (pc = "done" /\ FirstSeparator = 0)
    => /\ result.title = item
       /\ rawContent = <<>>
       /\ result.content = <<>>
       /\ result.availability = Undefined

NoSeparatorWitness ==
  /\ pc = "done"
  /\ FirstSeparator = 0
  /\ MatchAvailability(item) # <<>>
  /\ result.title = item

\* C4: only the first ": " is structural: the title is the text before it and contains no
\* separator, the body is the text after it with every later separator kept, and
\* title + ": " + body is the input.
FirstSeparatorSplits ==
  (pc # "split" /\ FirstSeparator # 0)
    => /\ title = SubSeq(item, 1, FirstSeparator - 1)
       /\ ~Contains(title, Separator)
       /\ rawContent = Body
       /\ title \o Separator \o rawContent = item
       /\ pc = "done" => result.title = title

FirstSeparatorWitness ==
  /\ pc = "done"
  /\ FirstSeparator > 1
  /\ Contains(rawContent, Separator)
  /\ title \o Separator \o rawContent = item

\* C5: an input with exactly one ": " and no availability clause in its body has no
\* availability, and its content is the sanitized emphasis of the untouched body; when the body
\* has no label followed by a colon either, the content is the sanitized body.
NoClauseLeavesBodyUntouched ==
  (pc = "done" /\ FirstSeparator # 0 /\ ~Contains(Body, Separator) /\ ~HasClause(Body))
    => /\ result.availability = Undefined
       /\ result.content = DOMPurifySanitize(boldMetadataLabels(Body))
       /\ LabelOccurrences(Body, Len(Body)) = {} => result.content = DOMPurifySanitize(Body)

\* C6 as documented: emphasis is inserted only where a label stands after the start or a
\* boundary character and is immediately followed by a colon.
EmphasisOnlyBeforeImmediateColon ==
  [][BoldItem => StarCount(content') - StarCount(content)
                   = 4 * Cardinality(LabelOccurrences(content, 0))]_vars

\* C6: emphasis is inserted only where a label stands after the start or a boundary character
\* and is followed, after optional whitespace, by a colon: one pair of markers for each such
\* place and none anywhere else, so a text without such a place is left unchanged.
EmphasisOnlyAtLabelBoundaries ==
  [][BoldItem => /\ StarCount(content') - StarCount(content)
                      = 4 * Cardinality(LabelOccurrences(content, Len(content)))
                 /\ LabelOccurrences(content, Len(content)) = {} => content' = content]_vars

EmphasisBoundaryWitness ==
  /\ pc = "sanitize"
  /\ Contains(content, <<"S", "k", "i", "l", "l", "s", "e", "t", "s">>)
  /\ Contains(content, <<"*", "*", "R", "o", "l", "e", ":", "*", "*">>)
  /\ StarCount(content) = 4

\* C7: the returned content is the sanitizer's output on the emphasized body and holds no
\* script tag, the emphasis markers of a body without markup are kept, and the title is the
\* unsanitized text before the first separator.
ContentIsSanitizedLast ==
  pc = "done"
    => /\ result.content = DOMPurifySanitize(content)
       /\ ~Contains(result.content, ScriptOpen)
       /\ ~Contains(result.content, ScriptClose)
       /\ (~Contains(content, ScriptOpen) /\ ~Contains(content, ScriptClose))
            => result.content = content
       /\ result.title = (IF FirstSeparator = 0 THEN item ELSE SubSeq(item, 1, FirstSeparator - 1))

ContentIsSanitizedWitness ==
  /\ pc = "done"
  /\ Contains(Body, ScriptOpen)
  /\ Contains(content, ScriptClose)
  /\ Contains(result.content, <<"*", "*", "R", "o", "l", "e", ":", "*", "*">>)

\* C8: the record returned for an input has a title, a content and an availability that is
\* absent or a text, and a captured token that is not a finite number is returned as the
\* availability unchanged.
ParserIsTotal ==
  pc = "done"
    => /\ DOMAIN result = {"title", "content", "availability"}
       /\ result.title \in Seq(STRING)
       /\ result.content \in Seq(STRING)
       /\ result.availability = Undefined
          \/ (Len(result.availability) = 1 /\ result.availability[1] \in Seq(STRING))
       /\ (availabilityMatch # <<>> /\ ~FiniteToken(availabilityMatch[2]))
            => result.availability = Some(availabilityMatch[2])

MalformedNumberWitness ==
  /\ pc = "done"
  /\ availabilityMatch # <<>>
  /\ ~FiniteToken(availabilityMatch[2])
  /\ result.availability = Some(availabilityMatch[2])

\* The labels that contain a shorter label.
ContainingLabels ==
  {LABELS_TO_BOLD[k] : k \in {j \in 1..Len(LABELS_TO_BOLD) :
     \E h \in 1..Len(LABELS_TO_BOLD) :
       /\ Len(LABELS_TO_BOLD[h]) < Len(LABELS_TO_BOLD[j])
       /\ \E i \in 1..Len(LABELS_TO_BOLD[j]) : CaselessAt(LABELS_TO_BOLD[j], LABELS_TO_BOLD[h], i)}}

\* C9: a label that contains a shorter label and stands at a boundary before a colon is
\* emphasized as one unit, "**<label>:**", with no further markers inside it.
LongerLabelIsOneUnit ==
  [][BoldItem => \A label \in ContainingLabels : \A i \in 1..Len(content) :
                   LabelOccursAt(content, label, i, Len(content))
                     => Contains(content', <<"*", "*">> \o SubSeq(content, i, i + Len(label) - 1)
                                             \o <<":", "*", "*">>)]_vars

\* C10: emphasizing an emphasized text changes nothing.
EmphasisIsIdempotent ==
  pc = "sanitize" => boldMetadataLabels(content) = content

EmphasisIsIdempotentWitness ==
  /\ pc = "sanitize"
  /\ Contains(content, <<"*", "*", "B", "o", "o", "k", "i", "n", "g", " ", "*", "*", "U", "R", "L", ":", "*", "*", "*", "*">>)
  /\ boldMetadataLabels(content) = content

====
